---- MODULE Spec2Model ----
(***************************************************************************)
(* Edge gunshot detector (gunshot_detector_v1192_official.c): the audio    *)
(* callback on_process with its accumulator, the loudness gate and the     *)
(* decision / notification logic of process_gunshot_detection and          *)
(* send_email_notification, and the configuration reload.                  *)
(*                                                                         *)
(* Representation.                                                         *)
(*  - A block of samples (a chunk, the audio_buffer) is a run-length       *)
(*    sequence of records [v, n]: n consecutive samples of amplitude v.    *)
(*    Amplitudes are integers in units of 0.0005, so MIN_RMS_THRESHOLD     *)
(*    (0.001f) is 2 and  rms < 0.001  is  sum(v^2) < 2*2*num_samples.      *)
(*  - Probabilities are integers in units of 1/10000; the threshold is     *)
(*    kept as the integer percentage the configuration holds.              *)
(*  - time(NULL) is the variable now, advanced by the environment; a       *)
(*    callback reads one value of it.                                      *)
(*  - compute_mel_spectrogram and quantize_input write only the input      *)
(*    tensor, which none of the decisions below reads; the result of       *)
(*    larodRunJob is an input of the callback.  A pass records whether     *)
(*    its features were computed; quantize_input is modelled on its own,   *)
(*    on feature values in units of 1/MEL_ONE.                             *)
(*  - config_warnings, the io field of cb, fft_inits and mel_builds        *)
(*    record what the code does besides changing its variables: the        *)
(*    warnings it logs, the I/O of a callback, the executions of the       *)
(*    one-time initialisations.                                            *)
(***************************************************************************)
EXTENDS Integers, Sequences, FiniteSets, TLC

\* ------------------------------------------------------------------------
\* Program constants
AUDIO_BUFFER_SIZE == 180800
INFERENCE_THRESHOLD == 88000
EMAIL_RATE_LIMIT_SECONDS == 120
CONFIG_CHECK_SECONDS == 5
MIN_RMS_THRESHOLD == 2
DEFAULT_THRESHOLD == 45
THRESHOLD_MIN == 30
THRESHOLD_MAX == 70
TARGET_SAMPLE_RATE == 22050
N_FFT == 1024
HOP_LENGTH == 512
N_MELS == 28
N_FRAMES == 160
EXPECTED_INPUT_SIZE == N_MELS * N_FRAMES
N_FFT_BINS == N_FFT \div 2 + 1
SCALE_INV == 255
zero_point == -128
INT8_MIN == -128
INT8_MAX == 127
MEL_ONE == 1530

\* ------------------------------------------------------------------------
\* Bounds of the model
\* The callback reloads the configuration every 5000th call; the model
\* keeps debug_counter modulo ReloadPeriod, a scaled-down period.
ReloadPeriod == 3
\* Largest number of consumption attempts recorded in one behaviour.
MaxPasses == 2
\* time(NULL) when the process starts, and how far the clock may advance.
StartTime == 1000
\* How far the clock may advance in the configuration specifications.
MaxConfigElapsed == 11
MaxElapsed == 121

\* ------------------------------------------------------------------------
\* Sample blocks (run-length encoded float arrays)
Run(v, n) == [v |-> v, n |-> n]

Block(v, n) == IF n = 0 THEN << >> ELSE << Run(v, n) >>

RECURSIVE Total(_)
Total(r) == IF r = << >> THEN 0 ELSE Head(r).n + Total(Tail(r))

RECURSIVE Take(_, _)
Take(r, k) ==
    IF k <= 0 \/ r = << >> THEN << >>
    ELSE IF Head(r).n <= k THEN << Head(r) >> \o Take(Tail(r), k - Head(r).n)
    ELSE << Run(Head(r).v, k) >>

RECURSIVE Drop(_, _)
Drop(r, k) ==
    IF r = << >> THEN << >>
    ELSE IF k <= 0 THEN r
    ELSE IF Head(r).n <= k THEN Drop(Tail(r), k - Head(r).n)
    ELSE << Run(Head(r).v, Head(r).n - k) >> \o Tail(r)

Join(a, b) ==
    IF a = << >> THEN b
    ELSE IF b = << >> THEN a
    ELSE IF a[Len(a)].v = b[1].v
         THEN SubSeq(a, 1, Len(a) - 1)
              \o << Run(b[1].v, a[Len(a)].n + b[1].n) >>
              \o Tail(b)
    ELSE a \o b

\* r[i], for 0 <= i < Total(r)
At(r, i) == Head(Drop(r, i)).v

\* memcpy(dst + off, src, Total(src) * sizeof(float))
Memcpy(dst, off, src) ==
    Join(Join(Take(dst, off), src), Drop(dst, off + Total(src)))

RECURSIVE SumSq(_)
SumSq(r) ==
    IF r = << >> THEN 0
    ELSE Head(r).v * Head(r).v * Head(r).n + SumSq(Tail(r))

\* ------------------------------------------------------------------------
\* Configuration file: a sequence of lines  key="value"
ThresholdLine(n) == [key |-> "threshold", parsed |-> TRUE, num |-> n, str |-> ""]
BadThresholdLine == [key |-> "threshold", parsed |-> FALSE, num |-> 0, str |-> "x"]
\* sscanf("%[^\"]") matches at least one character: an empty value is not parsed
StrLine(k, s) == [key |-> k, parsed |-> (s # ""), num |-> 0, str |-> s]

NoFile == [exists |-> FALSE, mtime |-> 0, lines |-> << >>]
File(t, ls) == [exists |-> TRUE, mtime |-> t, lines |-> ls]

EmailOn == << StrLine("email_enabled", "yes"),
              StrLine("smtp_username", "user"),
              StrLine("recipient_email", "rcpt") >>

ThresholdInRange_NoUpper(threshold_int) == threshold_int >= THRESHOLD_MIN
\* if (threshold >= 0.30f && threshold <= 0.70f)
ThresholdInRange(threshold_int) ==
    threshold_int >= THRESHOLD_MIN /\ threshold_int <= THRESHOLD_MAX

\* One iteration of the fgets loop of load_config
parse_line(c, line) ==
    IF line.key = "threshold" THEN
        IF line.parsed /\ ThresholdInRange(line.num)
        THEN [c EXCEPT !.confidence_threshold = line.num]
        ELSE c
    ELSE IF line.key = "email_enabled" THEN
        IF line.parsed THEN [c EXCEPT !.email_enabled = (line.str = "yes")] ELSE c
    ELSE IF line.key = "smtp_username" THEN
        IF line.parsed THEN [c EXCEPT !.smtp_username = line.str] ELSE c
    ELSE IF line.key = "recipient_email" THEN
        IF line.parsed THEN [c EXCEPT !.recipient_email = line.str] ELSE c
    ELSE c

RECURSIVE parse_lines(_, _)
parse_lines(c, ls) ==
    IF ls = << >> THEN c ELSE parse_lines(parse_line(c, Head(ls)), Tail(ls))

load_config(c, file) ==
    IF ~file.exists THEN c ELSE parse_lines(c, file.lines)

\* The [CONFIG] LOG_WARNING messages of one iteration of the fgets loop
parse_line_warnings(line) ==
    IF line.key # "threshold" THEN {}
    ELSE IF ~line.parsed THEN {"parse_failed"}
    ELSE IF ~ThresholdInRange(line.num) THEN {"out_of_range"}
    ELSE {}

\* The [CONFIG] LOG_WARNING messages of one call of load_config
load_config_warnings(file) ==
    IF ~file.exists THEN {"file_not_found"}
    ELSE UNION { parse_line_warnings(file.lines[i]) : i \in DOMAIN file.lines }

\* check_config_changes: at most one stat() every CONFIG_CHECK_SECONDS
check_config_changes(c, lcc, lm, t, file) ==
    IF t - lcc < CONFIG_CHECK_SECONDS
    THEN [c |-> c, last_config_check |-> lcc, last_mtime |-> lm,
          stat |-> FALSE, reloaded |-> FALSE]
    ELSE IF file.exists /\ file.mtime # lm
         THEN [c |-> load_config(c, file), last_config_check |-> t,
               last_mtime |-> file.mtime, stat |-> TRUE, reloaded |-> TRUE]
         ELSE [c |-> c, last_config_check |-> t, last_mtime |-> lm,
               stat |-> TRUE, reloaded |-> FALSE]

\* ------------------------------------------------------------------------
\* on_parameter_changed(param_name, param_value): the (ss) signal arguments.
\* strstr(param_name, "threshold"), strstr(param_name, "email_enabled")
NameHas(param_name, word) ==
    IF word = "threshold"
    THEN param_name \in {"threshold", "root.Gunshot.threshold"}
    ELSE param_name = word

\* atoi(param_value): the leading decimal digits, 0 when there are none
atoi(param_value) ==
    CASE param_value = "29" -> 29
      [] param_value = "30" -> 30
      [] param_value = "35abc" -> 35
      [] param_value = "50" -> 50
      [] param_value = "70" -> 70
      [] param_value = "71" -> 71
      [] param_value = "-45" -> 0 - 45
      [] OTHER -> 0

\* if (threshold_int >= 30 && threshold_int <= 70)
ParamThresholdInRange(threshold_int) ==
    threshold_int >= 30 /\ threshold_int <= 70

parameter_changed(c, param_name, param_value) ==
    LET threshold_int == atoi(param_value)
        c1 == IF NameHas(param_name, "threshold")
                 /\ ParamThresholdInRange(threshold_int)
              THEN [c EXCEPT !.confidence_threshold = threshold_int]
              ELSE c
    IN  IF NameHas(param_name, "email_enabled")
        THEN [c1 EXCEPT !.email_enabled = (param_value = "yes")]
        ELSE c1

\* ------------------------------------------------------------------------
\* Inference output: softmax over the two dequantized int8 scores.
\* prob2 = 1 / (1 + exp(-(o1 - o0) * 0.003921568859368563)), tabulated in
\* units of 1/10000 for the score differences the model feeds in.
SoftmaxTable ==
    [d \in {-255, -204, -51, 0, 51, 204, 255} |->
        CASE d = -255 -> 2689
          [] d = -204 -> 3100
          [] d = -51  -> 4502
          [] d = 0    -> 5000
          [] d = 51   -> 5498
          [] d = 204  -> 6900
          [] d = 255  -> 7311]

Prob2(out) == SoftmaxTable[out[2] - out[1]]

\* gunshot_confidence = prob2 * 100.0f, in tenths of a percent as logged (%.1f)
Confidence(prob2) == (prob2 + 5) \div 10

\* ------------------------------------------------------------------------
\* Conditions of the code
FitsInBuffer_NoLen(acc, n) == acc <= AUDIO_BUFFER_SIZE
FitsInBuffer_Strict(acc, n) == acc + n < AUDIO_BUFFER_SIZE
\* if (samples_accumulated + n_samples <= AUDIO_BUFFER_SIZE)
FitsInBuffer(acc, n) == acc + n <= AUDIO_BUFFER_SIZE

\* if (samples_accumulated >= INFERENCE_THRESHOLD)
\* if (data->is_target_stream && ml_ready)
ProcessesAudio_AnyStream(is_target_stream, ready) == ready
ProcessesAudio(is_target_stream, ready) == is_target_stream /\ ready

\* The calls of pw_stream_queue_buffer made by one callback: none on the
\* return taken when no buffer was dequeued, one at the label done, which
\* every other path reaches (goto done on a null data pointer, fall through)
Requeued_NotOnNullData(dequeued, has_data) == IF dequeued /\ has_data THEN 1 ELSE 0
Requeued(dequeued, has_data) == IF dequeued THEN 1 ELSE 0

ReadyForInference_AboveCapacity(acc) == acc > AUDIO_BUFFER_SIZE
ReadyForInference_Strict(acc) == acc > INFERENCE_THRESHOLD
ReadyForInference(acc) == acc >= INFERENCE_THRESHOLD

\* rms = sqrtf(sum(x^2) / num_samples);  if (rms < MIN_RMS_THRESHOLD)
RmsBelowFloor(audio_samples, num_samples) ==
    SumSq(Take(audio_samples, num_samples))
        < MIN_RMS_THRESHOLD * MIN_RMS_THRESHOLD * num_samples

AboveThreshold_Inclusive(prob2, threshold) == prob2 >= threshold * 100
\* if (prob2 > confidence_threshold)
AboveThreshold(prob2, threshold) == prob2 > threshold * 100

RateLimited_Short(t, let) == t - let < EMAIL_RATE_LIMIT_SECONDS - 1
RateLimited_Inclusive(t, let) == t - let <= EMAIL_RATE_LIMIT_SECONDS
\* if (current_time - last_email_time < EMAIL_RATE_LIMIT_SECONDS)
RateLimited(t, let) == t - let < EMAIL_RATE_LIMIT_SECONDS

EmailConfigured(c) ==
    c.email_enabled /\ c.smtp_username # "" /\ c.recipient_email # ""

LastEmailTimeAfter_Never(let, t, success) == let
\* if (success) last_email_time = current_time;
LastEmailTimeAfter_Always(let, t, success) == t
LastEmailTimeAfter(let, t, success) == IF success THEN t ELSE let

\* fopen(CONFIG_PATH, "r") and, when the file is there, the fgets loop
FileIo(file) == IF file.exists THEN "file_read" ELSE "file_open"

DetectionReturn_Email(email_ret) == email_ret
\* the detection branch returns true whatever send_email_notification returned
DetectionReturn(email_ret) == TRUE

AccumulatedAfterPass_KeepOnSkip(acc, ret) == IF ret THEN 0 ELSE acc
\* samples_accumulated = 0; // Reset for next batch
AccumulatedAfterPass(acc, ret) == 0

\* ------------------------------------------------------------------------
\* One-time initialisation.  alloc_ok: fftwf_alloc_complex, malloc and
\* fftwf_plan_dft_1d all succeeded.  inits / builds count the executions of
\* the code behind the guard (allocation, plan, window; filter bank matrix).
init_fft_workspace(fi, alloc_ok) ==
    IF fi THEN [ret |-> TRUE, fft_initialized |-> TRUE, inits |-> 0]
    ELSE [ret |-> alloc_ok, fft_initialized |-> alloc_ok, inits |-> 1]

init_mel_filter_bank_NoGuard(mi) ==
    [ret |-> TRUE, mel_filters_initialized |-> TRUE, builds |-> 1]
init_mel_filter_bank(mi) ==
    IF mi THEN [ret |-> TRUE, mel_filters_initialized |-> TRUE, builds |-> 0]
    ELSE [ret |-> TRUE, mel_filters_initialized |-> TRUE, builds |-> 1]

\* if (!init_fft_workspace() || !init_mel_filter_bank()): the second call is
\* made only when the first returned true
init_audio_processing(fi, mi, alloc_ok) ==
    LET f == init_fft_workspace(fi, alloc_ok)
        m == IF f.ret THEN init_mel_filter_bank(mi)
             ELSE [ret |-> FALSE, mel_filters_initialized |-> mi, builds |-> 0]
    IN  [ok |-> f.ret /\ m.ret,
         fft_initialized |-> f.fft_initialized,
         mel_filters_initialized |-> m.mel_filters_initialized,
         fft_inits |-> f.inits, mel_builds |-> m.builds]

\* The frame loop of compute_mel_spectrogram:
\*   for (start = 0; start < (int)num_samples - N_FFT && frame_count < N_FRAMES;
\*        start += HOP_LENGTH)
FrameStarts(start, n) == start < n - N_FFT

MoreFrames_Inclusive(frame_count) == frame_count <= N_FRAMES
MoreFrames(frame_count) == frame_count < N_FRAMES

\* One frame: audio[start + i] is read for i < N_FFT while start + i < n,
\* fft_in[i] = 0 beyond; output[frame_count * N_MELS + m] is written, m < N_MELS
LastRead(start, n) ==
    IF start + N_FFT - 1 < n THEN start + N_FFT - 1 ELSE n - 1

ZeroPadded(start, n) == start + N_FFT - 1 >= n

\* The loop condition before iteration k: start = k * HOP_LENGTH and
\* frame_count = k, both advance by one step per frame
LoopGoesOn(k, n) == FrameStarts(k * HOP_LENGTH, n) /\ MoreFrames(k)

\* memset(output, 0, ...): no frame yet, nothing read, nothing written
NoFrames == [frame_count |-> 0, max_read |-> -1, padded |-> FALSE, max_write |-> -1]

\* The loop leaves at the first k at which its condition fails; the
\* condition never holds again after it failed (start and frame_count only
\* grow), so the iterations made are the k at which it holds
mel_frames(n) ==
    LET frame_count == Cardinality({ k \in 0 .. N_FRAMES : LoopGoesOn(k, n) })
    IN  IF frame_count = 0 THEN NoFrames
        ELSE [frame_count |-> frame_count,
              max_read |-> LastRead((frame_count - 1) * HOP_LENGTH, n),
              padded |-> \E k \in 0 .. frame_count - 1 :
                            ZeroPadded(k * HOP_LENGTH, n),
              max_write |-> frame_count * N_MELS - 1]

\* process_gunshot_detection(audio_buffer, AUDIO_BUFFER_SIZE): the frame
\* loop of every pass of on_process runs on num_samples = AUDIO_BUFFER_SIZE
FramesOfPass == mel_frames(AUDIO_BUFFER_SIZE)

\* ------------------------------------------------------------------------
\* init_mel_filter_bank: the break bins and the rows of mel_filter_bank.
\* Frequencies are in units of 1/HZ_ONE Hz.  Weights are fractions << n, d >>,
\* so that the divisions are exact.
HZ_ONE == 100

MEL_FMAX == (TARGET_SAMPLE_RATE * HZ_ONE) \div 2

\* hz_points[i] = mel_to_hz(mel_min + (mel_max - mel_min) * i / (N_MELS + 1))
\* for i = 0 .. N_MELS, with mel = 2595 log10(1 + hz / 700): the values of
\* the float computation, rounded down to 0.01 Hz
hz_points_inner ==
    << 0, 7144, 15018, 23695, 33258, 43798, 55412, 68213, 82320, 97866,
       115000, 133882, 154691, 177624, 202898, 230752, 261448, 295278, 332560,
       373648, 418929, 468832, 523828, 584437, 651233, 724846, 805972, 895379,
       993911 >>

\* hz_points[N_MELS + 1] = mel_to_hz(hz_to_mel(MEL_FMAX)) is MEL_FMAX up to
\* the rounding of log10f and powf: a little less than MEL_FMAX, or not less
HzTops == { MEL_FMAX - 1, MEL_FMAX }

hz_points(top) == Append(hz_points_inner, top)

\* bin_points[i] = (int)floorf(hz_points[i] * N_FFT / TARGET_SAMPLE_RATE),
\* clamped to N_FFT_BINS - 1
bin_point(hz) ==
    LET b == (hz * N_FFT) \div (TARGET_SAMPLE_RATE * HZ_ONE)
    IN  IF b >= N_FFT_BINS THEN N_FFT_BINS - 1 ELSE b

Bins == 0 .. N_FFT_BINS - 1

\* memset(mel_filter_bank, 0, sizeof(mel_filter_bank))
ZeroWeight == << 0, 1 >>

ZeroRow == [k \in Bins |-> ZeroWeight]

\* (float)(k - left) / (center - left) and (float)(right - k) / (right - center)
rising_FromCenter(k, left, center) == << k - center, center - left >>
rising(k, left, center) == << k - left, center - left >>

falling(k, center, right) == << right - k, right - center >>

\* the two loops over k of band m, on a row of zeros
fill_row(left, center, right) ==
    [k \in Bins |->
        IF k >= left /\ k < center /\ center > left THEN rising(k, left, center)
        ELSE IF k >= center /\ k < right /\ right > center
        THEN falling(k, center, right)
        ELSE ZeroWeight]

RECURSIVE GCD(_, _)
GCD(a, b) == IF b = 0 THEN a ELSE GCD(b, a % b)

LCM(a, b) == (a \div GCD(a, b)) * b

RECURSIVE LCMOf(_)
LCMOf(ds) ==
    IF ds = {} THEN 1
    ELSE LET d == CHOOSE x \in ds : TRUE IN LCM(d, LCMOf(ds \ {d}))

\* the sum of f[lo] .. f[hi]
RECURSIVE SumRange(_, _, _)
SumRange(f, lo, hi) ==
    IF lo > hi THEN 0
    ELSE IF lo = hi THEN f[lo]
    ELSE LET mid == (lo + hi) \div 2
         IN  SumRange(f, lo, mid) + SumRange(f, mid + 1, hi)

\* area = sum over k < N_FFT_BINS of mel_filter_bank[m][k], as a fraction
area(row) ==
    LET d == LCMOf({ row[k][2] : k \in Bins })
        n == [k \in Bins |-> row[k][1] * (d \div row[k][2])]
    IN  << SumRange(n, 0, N_FFT_BINS - 1), d >>

\* if (area > 0.0f) mel_filter_bank[m][k] /= area, for every k
normalize_row(row) ==
    LET a == area(row)
    IN  IF a[1] > 0
        THEN [k \in Bins |-> << row[k][1] * a[2], row[k][2] * a[1] >>]
        ELSE row

\* compute_mel_spectrogram: on an initialisation failure the output is
\* zeroed and the function returns; the caller is not told
compute_mel_spectrogram(fi, mi, alloc_ok) ==
    LET i == init_audio_processing(fi, mi, alloc_ok)
    IN  [init |-> i, features |-> IF i.ok THEN "computed" ELSE "zero"]

PipelineReady_LarodOnly(larod_init_ok, audio_ok) == larod_init_ok
\* main: return 1 unless init_larod and the audio initialisation succeeded
PipelineReady(larod_init_ok, audio_ok) == larod_init_ok /\ audio_ok

\* ------------------------------------------------------------------------
\* quantize_input.  A feature value is an integer in units of 1/MEL_ONE
\* (mel_normalized is clamped to [0, 1] = 0..MEL_ONE); scale is 1/SCALE_INV,
\* so centered_value / scale = (2*v - MEL_ONE) * SCALE_INV / MEL_ONE.
\* MEL_ONE = 6 * SCALE_INV: the quotient is a multiple of 1/3, never a half.
RoundDiv(a, b) ==
    IF a >= 0 THEN (2 * a + b) \div (2 * b)
    ELSE 0 - ((2 * (0 - a) + b) \div (2 * b))

Clamp(x, lo, hi) == IF x < lo THEN lo ELSE IF x > hi THEN hi ELSE x

quantize_element_NoClamp(mel_value) ==
    RoundDiv((2 * mel_value - MEL_ONE) * SCALE_INV, MEL_ONE) + zero_point
quantize_element_NoCentre(mel_value) ==
    Clamp(RoundDiv(mel_value * SCALE_INV, MEL_ONE) + zero_point, INT8_MIN, INT8_MAX)
\* one iteration of the loop of quantize_input
quantize_element(mel_value) ==
    Clamp(RoundDiv((2 * mel_value - MEL_ONE) * SCALE_INV, MEL_ONE) + zero_point,
          INT8_MIN, INT8_MAX)

\* the loop over the EXPECTED_INPUT_SIZE elements, on run-length arrays
RECURSIVE quantized(_)
quantized(mel) ==
    IF mel = << >> THEN << >>
    ELSE Join(<< Run(quantize_element(Head(mel).v), Head(mel).n) >>,
              quantized(Tail(mel)))

\* the inverse the tensor's parameters define: (q - zero_point) * scale,
\* in units of 1/MEL_ONE
dequantize(q) == (q - zero_point) * (MEL_ONE \div SCALE_INV)

\* ------------------------------------------------------------------------
\* send_email_notification(confidence, rms): curl is the outcome of libcurl
\* ("ok", "perform_failed", "init_failed")
send_email_notification(c, let, t, curl) ==
    IF ~EmailConfigured(c)
    THEN [ret |-> FALSE, stage |-> "not_configured", last_email_time |-> let]
    ELSE IF RateLimited(t, let)
    THEN [ret |-> FALSE, stage |-> "rate_limited", last_email_time |-> let]
    ELSE IF curl = "init_failed"
    THEN [ret |-> FALSE, stage |-> "curl_init_failed", last_email_time |-> let]
    ELSE [ret |-> (curl = "ok"),
          stage |-> IF curl = "ok" THEN "sent" ELSE "send_failed",
          last_email_time |-> LastEmailTimeAfter(let, t, curl = "ok")]

NoEmail(let) == [ret |-> FALSE, stage |-> "none", last_email_time |-> let]

FailedPass_Counted(run) ==
    [run EXCEPT !.outcome = "inference_failed", !.inferences = 1]
\* larodRunJob returned false: LOG_ERR, larodClearError, return false
FailedPass(run) == [run EXCEPT !.outcome = "inference_failed"]

\* process_gunshot_detection(audio_samples, num_samples)
\*   ws : fft_initialized, mel_filters_initialized and the outcome alloc_ok
\*        of an allocation, should init_fft_workspace attempt one
process_gunshot_detection(audio_samples, num_samples, ready, ws, c, let, t, larod_ok, out, curl) ==
    LET none == [ok |-> FALSE, fft_initialized |-> ws.fft_initialized,
                 mel_filters_initialized |-> ws.mel_filters_initialized,
                 fft_inits |-> 0, mel_builds |-> 0]
        base == [outcome |-> "not_ready", ret |-> FALSE, larod_called |-> FALSE,
                 inferences |-> 0, detections |-> 0, prob2 |-> 0,
                 email |-> NoEmail(let),
                 sumsq |-> 0, num_samples |-> num_samples,
                 init |-> none, features |-> "none"]
        sq == SumSq(Take(audio_samples, num_samples))
        mel == compute_mel_spectrogram(ws.fft_initialized,
                                       ws.mel_filters_initialized, ws.alloc_ok)
        run == [base EXCEPT !.sumsq = sq, !.larod_called = TRUE,
                            !.init = mel.init, !.features = mel.features]
    IN  IF ~ready THEN base
        ELSE IF RmsBelowFloor(audio_samples, num_samples)
        THEN [base EXCEPT !.outcome = "skipped", !.sumsq = sq]
        ELSE IF ~larod_ok
        THEN FailedPass(run)
        ELSE LET prob2 == Prob2(out) IN
             IF AboveThreshold(prob2, c.confidence_threshold)
             THEN LET email == IF c.email_enabled
                               THEN send_email_notification(c, let, t, curl)
                               ELSE NoEmail(let)
                  IN [run EXCEPT !.outcome = "above", !.inferences = 1,
                                 !.detections = 1, !.prob2 = prob2,
                                 !.email = email,
                                 !.ret = DetectionReturn(email.ret)]
             ELSE [run EXCEPT !.outcome = "below", !.inferences = 1,
                              !.prob2 = prob2]

\* ------------------------------------------------------------------------
\* State
VARIABLES
    pc,                    \* main(): "start", "running" (pw_main_loop_run), "exited"
    now,                   \* time(NULL)
    config_file,           \* the file at CONFIG_PATH
    confidence_threshold,  \* percent
    email_enabled,
    smtp_username,
    recipient_email,
    last_email_time,
    last_config_check,
    last_mtime,
    fft_initialized,
    mel_filters_initialized,
    ml_ready,
    audio_buffer,
    samples_accumulated,
    debug_counter,         \* modulo ReloadPeriod
    inference_count,
    detection_count,
    streams,               \* node name -> is_target_stream, for every stream created
    cb,                    \* what the latest on_process call did
    pass_count,            \* number of consumption attempts so far
    last_pass,             \* the latest consumption attempt
    sent,                  \* notifications delivered (curl_easy_perform == CURLE_OK)
    config_warnings,       \* [CONFIG] LOG_WARNINGs of the latest load_config /
                           \* on_parameter_changed
    last_param,            \* the latest parameter-changed signal
    fft_inits,             \* executions of the body of init_fft_workspace
    mel_builds,            \* computations of mel_filter_bank
    mel_features,          \* argument of a call of quantize_input
    quantized_output,      \* its result
    spectrogram_samples,   \* num_samples of a call of compute_mel_spectrogram
    spectrogram,           \* what its frame loop did
    bank                   \* a run of the body of init_mel_filter_bank:
                           \* bin_points, mel_filter_bank, the band m in work

cfgvars == << confidence_threshold, email_enabled, smtp_username, recipient_email >>
chkvars == << last_config_check, last_mtime >>
initvars == << fft_initialized, mel_filters_initialized, ml_ready >>
accvars == << audio_buffer, samples_accumulated >>
cntvars == << inference_count, detection_count >>
passvars == << pass_count, last_pass >>
envvars == << now, config_file >>
logvars == << config_warnings, last_param >>
wsvars == << fft_inits, mel_builds >>
framevars == << spectrogram_samples, spectrogram >>
quantvars == << mel_features, quantized_output, framevars, bank >>
vars == << pc, envvars, cfgvars, last_email_time, chkvars, initvars, accvars,
           debug_counter, cntvars, streams, cb, passvars, sent, logvars,
           wsvars, quantvars >>

Cfg == [confidence_threshold |-> confidence_threshold,
        email_enabled |-> email_enabled,
        smtp_username |-> smtp_username,
        recipient_email |-> recipient_email]

SetCfg(c) ==
    /\ confidence_threshold' = c.confidence_threshold
    /\ email_enabled' = c.email_enabled
    /\ smtp_username' = c.smtp_username
    /\ recipient_email' = c.recipient_email

NoCallback == [kind |-> "none", stream |-> "", n |-> 0,
               wstart |-> 0, wlen |-> 0, requeued |-> 0, io |-> {}]

NoPass == [seq |-> 0, outcome |-> "none"]

NoParam == [param_name |-> "", param_value |-> ""]

NodeNames == {"AudioDevice0Input0.Unprocessed", "AudioDevice0Input0",
              "AudioDevice0Output0"}

\* strstr(node_name, "AudioDevice0Input0")
IsInputNode(name) ==
    name \in {"AudioDevice0Input0.Unprocessed", "AudioDevice0Input0"}

\* strstr(data->name, "AudioDevice0Input0.Unprocessed") != NULL
IsTargetName(name) == name = "AudioDevice0Input0.Unprocessed"

\* The static initialisers of the program, with the environment given
InitProgram(files) ==
    /\ pc = "start"
    /\ now = StartTime
    /\ config_file \in files
    /\ confidence_threshold = DEFAULT_THRESHOLD
    /\ email_enabled = FALSE
    /\ smtp_username = ""
    /\ recipient_email = ""
    /\ last_email_time = 0
    /\ last_config_check = 0
    /\ last_mtime = 0
    /\ fft_initialized = FALSE
    /\ mel_filters_initialized = FALSE
    /\ ml_ready = FALSE
    /\ audio_buffer = Block(0, AUDIO_BUFFER_SIZE)
    /\ samples_accumulated = 0
    /\ debug_counter = 0
    /\ inference_count = 0
    /\ detection_count = 0
    /\ streams = << >>
    /\ cb = NoCallback
    /\ pass_count = 0
    /\ last_pass = NoPass
    /\ sent = << >>
    /\ config_warnings = {}
    /\ last_param = NoParam
    /\ fft_inits = 0
    /\ mel_builds = 0

\* No call of quantize_input is under way
NoCall == [frame_count |-> -1]

NoBank == [stage |-> "idle"]

InitWith(files) ==
    /\ InitProgram(files)
    /\ mel_features = << >>
    /\ quantized_output = << >>
    /\ spectrogram_samples = 0
    /\ spectrogram = NoCall
    /\ bank = NoBank

\* ------------------------------------------------------------------------
\* main(): load_config, setup_config_monitoring, init_larod,
\* init_fft_workspace, init_mel_filter_bank, ml_ready = true, main loop
main(larod_init_ok, fft_ok) ==
    /\ pc = "start"
    /\ SetCfg(load_config(Cfg, config_file))
    /\ config_warnings' = load_config_warnings(config_file)
    /\ last_config_check' = now
    /\ LET i == IF larod_init_ok
                THEN init_audio_processing(fft_initialized,
                                           mel_filters_initialized, fft_ok)
                ELSE [ok |-> FALSE, fft_initialized |-> fft_initialized,
                      mel_filters_initialized |-> mel_filters_initialized,
                      fft_inits |-> 0, mel_builds |-> 0]
       IN  /\ fft_initialized' = i.fft_initialized
           /\ mel_filters_initialized' = i.mel_filters_initialized
           /\ fft_inits' = fft_inits + i.fft_inits
           /\ mel_builds' = mel_builds + i.mel_builds
           /\ ml_ready' = PipelineReady(larod_init_ok, i.ok)
           /\ pc' = IF PipelineReady(larod_init_ok, i.ok)
                    THEN "running" ELSE "exited"
    /\ UNCHANGED << envvars, last_email_time, last_mtime, accvars, debug_counter,
                    cntvars, streams, cb, passvars, sent, last_param, quantvars >>

\* registry_event_global: a stream is created for every AudioDevice0Input0 node
registry_event_global(name) ==
    /\ pc = "running"
    /\ name \notin DOMAIN streams
    /\ streams' = IF IsInputNode(name)
                  THEN [x \in DOMAIN streams \cup {name} |->
                           IF x = name THEN FALSE ELSE streams[x]]
                  ELSE streams
    /\ UNCHANGED << pc, envvars, cfgvars, last_email_time, chkvars, initvars,
                    accvars, debug_counter, cntvars, cb, passvars, sent,
                    logvars, wsvars, quantvars >>

\* on_param_changed: format_ok is "id == SPA_PARAM_Format, raw audio parsed"
on_param_changed(s, format_ok) ==
    /\ pc = "running"
    /\ s \in DOMAIN streams
    /\ streams' = IF format_ok /\ IsTargetName(s)
                  THEN [streams EXCEPT ![s] = TRUE]
                  ELSE streams
    /\ UNCHANGED << pc, envvars, cfgvars, last_email_time, chkvars, initvars,
                    accvars, debug_counter, cntvars, cb, passvars, sent,
                    logvars, wsvars, quantvars >>

\* ------------------------------------------------------------------------
\* on_process(userdata): one audio callback.
\*   dequeued : pw_stream_dequeue_buffer returned a buffer
\*   has_data : buf->datas[0].data != NULL
\*   chunk    : the samples of the buffer
\*   larod_ok, out : result and output tensor of larodRunJob
\*   curl     : outcome of libcurl
on_process(s, dequeued, has_data, chunk, larod_ok, out, curl) ==
    /\ pc = "running"
    /\ s \in DOMAIN streams
    /\ pass_count < MaxPasses
    /\ \E alloc_ok \in (IF fft_initialized THEN {TRUE} ELSE BOOLEAN) :
       \E n \in { Total(chunk) },
          dc \in { (debug_counter + 1) % ReloadPeriod },
          buf1 \in { Memcpy(audio_buffer, samples_accumulated, chunk) } :
       \E c1 \in { IF dc = 0 THEN load_config(Cfg, config_file) ELSE Cfg } :
       \E chk \in { check_config_changes(c1, last_config_check, last_mtime,
                                         now, config_file) } :
       LET w1 == IF dc = 0 THEN load_config_warnings(config_file)
                 ELSE config_warnings
           io1 == IF dc = 0 THEN {FileIo(config_file)} ELSE {}
           acc1 == samples_accumulated + n
           w2 == IF chk.reloaded THEN load_config_warnings(config_file) ELSE w1
           io2 == io1 \cup (IF chk.stat THEN {"stat"} ELSE {})
                      \cup (IF chk.reloaded THEN {FileIo(config_file)} ELSE {})
           ws == [fft_initialized |-> fft_initialized,
                  mel_filters_initialized |-> mel_filters_initialized,
                  alloc_ok |-> alloc_ok]
           io3(r) == io2 \cup (IF r.email.stage \in {"sent", "send_failed"}
                               THEN {"network"} ELSE {})
           done(kind, q, io) == [kind |-> kind, stream |-> s, n |-> n,
                                 wstart |-> 0, wlen |-> 0, requeued |-> q,
                                 io |-> io]
           q == Requeued(dequeued, has_data)
       IN  IF ~dequeued \/ ~has_data \/ ~ProcessesAudio(streams[s], ml_ready) THEN
               /\ cb' = IF ~dequeued THEN done("no_buffer", q, {})
                        ELSE IF ~has_data THEN done("no_data", q, {})
                        ELSE done("ignored", q, {})
               /\ UNCHANGED << cfgvars, last_email_time, chkvars, accvars,
                               debug_counter, cntvars, passvars, sent,
                               config_warnings, fft_initialized,
                               mel_filters_initialized, wsvars >>
           ELSE IF ~FitsInBuffer(samples_accumulated, n) THEN
               /\ debug_counter' = dc
               /\ SetCfg(c1)
               /\ config_warnings' = w1
               /\ cb' = done("dropped", q, io1)
               /\ UNCHANGED << last_email_time, chkvars, accvars, cntvars,
                               passvars, sent, fft_initialized,
                               mel_filters_initialized, wsvars >>
           ELSE
               /\ debug_counter' = dc
               /\ audio_buffer' = buf1
               /\ SetCfg(chk.c)
               /\ config_warnings' = w2
               /\ last_config_check' = chk.last_config_check
               /\ last_mtime' = chk.last_mtime
               /\ IF ReadyForInference(acc1) THEN
                    \E r \in { process_gunshot_detection(
                                   buf1, AUDIO_BUFFER_SIZE, ml_ready, ws, chk.c,
                                   last_email_time, now, larod_ok, out, curl) } :
                      /\ cb' = [done("consumed", q, io3(r))
                                EXCEPT !.wstart = samples_accumulated, !.wlen = n]
                      /\ samples_accumulated' = AccumulatedAfterPass(acc1, r.ret)
                      /\ inference_count' = inference_count + r.inferences
                      /\ detection_count' = detection_count + r.detections
                      /\ last_email_time' = r.email.last_email_time
                      /\ fft_initialized' = r.init.fft_initialized
                      /\ mel_filters_initialized' = r.init.mel_filters_initialized
                      /\ fft_inits' = fft_inits + r.init.fft_inits
                      /\ mel_builds' = mel_builds + r.init.mel_builds
                      /\ pass_count' = pass_count + 1
                      /\ last_pass' =
                            [seq |-> pass_count + 1, t |-> now,
                             outcome |-> r.outcome, ret |-> r.ret,
                             larod_called |-> r.larod_called,
                             prob2 |-> r.prob2,
                             threshold |-> chk.c.confidence_threshold,
                             configured |-> EmailConfigured(chk.c),
                             limited |-> (now - last_email_time < EMAIL_RATE_LIMIT_SECONDS),
                             stage |-> r.email.stage,
                             features |-> r.features,
                             frames |-> IF r.features = "computed"
                                        THEN FramesOfPass ELSE NoFrames,
                             prev |-> last_pass.outcome]
                      /\ sent' = IF r.email.ret
                                 THEN Append(sent,
                                        [t |-> now,
                                         confidence |-> Confidence(r.prob2),
                                         sumsq |-> r.sumsq,
                                         num_samples |-> r.num_samples])
                                 ELSE sent
                  ELSE
                      /\ cb' = [done("appended", q, io2)
                                EXCEPT !.wstart = samples_accumulated, !.wlen = n]
                      /\ samples_accumulated' = acc1
                      /\ UNCHANGED << last_email_time, cntvars, passvars, sent,
                                      fft_initialized, mel_filters_initialized,
                                      wsvars >>
    /\ UNCHANGED << pc, envvars, ml_ready, streams, last_param, quantvars >>

\* ------------------------------------------------------------------------
\* on_parameter_changed(param_name, param_value): the DBus signal handler
on_parameter_changed(param_name, param_value) ==
    /\ pc = "running"
    /\ SetCfg(parameter_changed(Cfg, param_name, param_value))
    /\ config_warnings' = {}
    /\ last_param' = [param_name |-> param_name, param_value |-> param_value]
    /\ UNCHANGED << pc, envvars, last_email_time, chkvars, initvars, accvars,
                    debug_counter, cntvars, streams, cb, passvars, sent,
                    wsvars, quantvars >>

\* ------------------------------------------------------------------------
\* quantize_input(mel_features, quantized_output)
quantize_input ==
    /\ mel_features # << >>
    /\ quantized_output' = quantized(mel_features)
    /\ UNCHANGED << pc, envvars, cfgvars, last_email_time, chkvars, initvars,
                    accvars, debug_counter, cntvars, streams, cb, passvars, sent,
                    logvars, wsvars, mel_features, framevars, bank >>

\* compute_mel_spectrogram(audio, num_samples, output), workspace initialised
compute_frames ==
    /\ spectrogram = NoCall
    /\ spectrogram' = mel_frames(spectrogram_samples)
    /\ UNCHANGED << pc, envvars, cfgvars, last_email_time, chkvars, initvars,
                    accvars, debug_counter, cntvars, streams, cb, passvars, sent,
                    logvars, wsvars, mel_features, quantized_output,
                    spectrogram_samples, bank >>

\* The body of init_mel_filter_bank, a loop iteration in two steps.
\* The break bins: mel_points, hz_points, bin_points
mel_bin_points(top) ==
    /\ bank = NoBank
    /\ bank' = [stage |-> "fill", m |-> 0,
                bin_points |-> [i \in 0 .. N_MELS + 1 |->
                                   bin_point(hz_points(top)[i + 1])],
                mel_filter_bank |-> [m \in 0 .. N_MELS - 1 |-> ZeroRow]]
    /\ UNCHANGED << pc, envvars, cfgvars, last_email_time, chkvars, initvars,
                    accvars, debug_counter, cntvars, streams, cb, passvars, sent,
                    logvars, wsvars, mel_features, quantized_output, framevars >>

\* band m: the rising and the falling slope
mel_fill_row ==
    /\ bank.stage = "fill"
    /\ LET m == bank.m
           left == bank.bin_points[m]
           center == bank.bin_points[m + 1]
           right == bank.bin_points[m + 2]
       IN  bank' = [bank EXCEPT !.stage = "normalize",
                                !.mel_filter_bank[m] = fill_row(left, center, right)]
    /\ UNCHANGED << pc, envvars, cfgvars, last_email_time, chkvars, initvars,
                    accvars, debug_counter, cntvars, streams, cb, passvars, sent,
                    logvars, wsvars, mel_features, quantized_output, framevars >>

\* band m: if (MEL_NORM_SLANEY) the row is divided by its sum; m++
mel_normalize_row ==
    /\ bank.stage = "normalize"
    /\ bank' = [bank EXCEPT
                  !.stage = IF bank.m + 1 < N_MELS THEN "fill" ELSE "done",
                  !.m = bank.m + 1,
                  !.mel_filter_bank[bank.m] =
                      normalize_row(bank.mel_filter_bank[bank.m])]
    /\ UNCHANGED << pc, envvars, cfgvars, last_email_time, chkvars, initvars,
                    accvars, debug_counter, cntvars, streams, cb, passvars, sent,
                    logvars, wsvars, mel_features, quantized_output, framevars >>

\* ------------------------------------------------------------------------
\* Environment: the clock advances; the configuration file is rewritten
Tick(d) ==
    /\ pc = "running"
    /\ now + d <= StartTime + MaxElapsed
    /\ now' = now + d
    /\ UNCHANGED << pc, config_file, cfgvars, last_email_time, chkvars, initvars,
                    accvars, debug_counter, cntvars, streams, cb, passvars, sent,
                    logvars, wsvars, quantvars >>

\* the clock advances, no further than limit seconds after the start
TickWithin(d, limit) ==
    /\ now + d <= StartTime + limit
    /\ Tick(d)

write_config(ls) ==
    /\ pc = "running"
    /\ config_file' = File(now, ls)
    /\ config_file' # config_file
    /\ UNCHANGED << pc, now, cfgvars, last_email_time, chkvars, initvars,
                    accvars, debug_counter, cntvars, streams, cb, passvars, sent,
                    logvars, wsvars, quantvars >>

\* ------------------------------------------------------------------------
\* Inputs fed to the model.  A callback's inputs that its path never reads
\* are fixed, so that one path is one transition.
NoOut == << 0, 0 >>

NoDataInputs ==
    { [dequeued |-> FALSE, has_data |-> FALSE, chunk |-> << >>,
       larod_ok |-> FALSE, out |-> NoOut, curl |-> "ok"],
      [dequeued |-> TRUE, has_data |-> FALSE, chunk |-> << >>,
       larod_ok |-> FALSE, out |-> NoOut, curl |-> "ok"] }

CallbackInputs(chunks, outs, curls) ==
    { [dequeued |-> TRUE, has_data |-> TRUE, chunk |-> ch,
            larod_ok |-> FALSE, out |-> NoOut, curl |-> "ok"] : ch \in chunks }
    \cup { [dequeued |-> TRUE, has_data |-> TRUE, chunk |-> ch,
            larod_ok |-> TRUE, out |-> o, curl |-> cu] :
              ch \in chunks, o \in outs, cu \in curls }

Callback(names, inputs) ==
    \E s \in names, i \in inputs :
        on_process(s, i.dequeued, i.has_data, i.chunk, i.larod_ok, i.out, i.curl)

TargetOnly == {"AudioDevice0Input0.Unprocessed"}

\* ------------------------------------------------------------------------
\* SpecAcc: the accumulator and the loudness gate under chunks of many
\* lengths: empty, partial, at the inference threshold, at capacity, beyond
\* it; silent (0), quiet (0.0005) and loud (0.01).  The clock stands still.
AccChunks ==
    { Block(0, 0), Block(0, 44000), Block(1, 44000), Block(0, 88000),
      Block(20, 88000), Block(20, AUDIO_BUFFER_SIZE),
      Block(20, AUDIO_BUFFER_SIZE + 1) }

AccInputs == NoDataInputs \cup CallbackInputs(AccChunks, { << 0, 0 >> }, {"ok"})

InitAcc == InitWith({NoFile})

NextAcc ==
    \/ \E l \in BOOLEAN, f \in BOOLEAN : main(l, f)
    \/ \E name \in NodeNames : registry_event_global(name)
    \/ \E s \in NodeNames, f \in BOOLEAN : on_param_changed(s, f)
    \/ Callback(NodeNames, AccInputs)

SpecAcc == InitAcc /\ [][NextAcc]_vars

\* ------------------------------------------------------------------------
\* Claims about the accumulator and the loudness gate (SpecAcc)

\* A callback on the target stream got as far as the accumulator in this step
TargetCallback == debug_counter' # debug_counter

\* A consumption attempt was made in this step
Attempt == pass_count' = pass_count + 1

Wrote(c) == c.kind \in {"appended", "consumed"}

\* C1: the fill count stays within 0..AUDIO_BUFFER_SIZE and no write to
\* audio_buffer reaches an index >= AUDIO_BUFFER_SIZE, whatever the chunk
\* lengths (empty and larger than the capacity included).
C1_FillWithinCapacity ==
    /\ samples_accumulated >= 0
    /\ samples_accumulated <= AUDIO_BUFFER_SIZE
    /\ Wrote(cb) => cb.wstart >= 0 /\ cb.wstart + cb.wlen <= AUDIO_BUFFER_SIZE
    /\ Total(audio_buffer) = AUDIO_BUFFER_SIZE

\* a chunk was written up to the last index of the buffer, after an earlier
\* chunk had been consumed
C1_Witness ==
    /\ Wrote(cb)
    /\ cb.wstart + cb.wlen = AUDIO_BUFFER_SIZE
    /\ pass_count = 2

\* C2: a chunk of n samples is appended if and only if filled + n <= capacity;
\* a chunk that does not fit is dropped as a whole: fill count and buffer are
\* what they were, and no consumption attempt is made.
C2_AppendIffFits ==
    [][TargetCallback =>
        /\ Wrote(cb') <=> (samples_accumulated + cb'.n <= AUDIO_BUFFER_SIZE)
        /\ Wrote(cb') => /\ cb'.wstart = samples_accumulated
                         /\ cb'.wlen = cb'.n
                         /\ Take(audio_buffer', samples_accumulated)
                                = Take(audio_buffer, samples_accumulated)
                         /\ Drop(audio_buffer', samples_accumulated + cb'.n)
                                = Drop(audio_buffer, samples_accumulated + cb'.n)
        /\ ~Wrote(cb') => /\ cb'.kind = "dropped"
                          /\ UNCHANGED accvars
                          /\ UNCHANGED passvars
                          /\ UNCHANGED cntvars
                          /\ UNCHANGED sent
    ]_vars

\* a chunk that an empty buffer could hold was dropped because of the fill
C2_Witness ==
    /\ cb.kind = "dropped"
    /\ cb.n <= AUDIO_BUFFER_SIZE
    /\ samples_accumulated > 0
    /\ samples_accumulated + cb.n > AUDIO_BUFFER_SIZE

\* C3 (as claimed): when the samples accumulated in the current window are all
\* zero, the attempt is skipped by the loudness gate: larodRunJob is not
\* called, the counters do not change and nothing is sent.
C3_SilentWindowSkipped ==
    [][(Attempt /\ SumSq(Take(audio_buffer', cb'.wstart + cb'.wlen)) = 0) =>
        /\ last_pass'.outcome = "skipped"
        /\ ~last_pass'.larod_called
        /\ UNCHANGED cntvars
        /\ UNCHANGED sent
    ]_vars

\* C4 (as claimed): the loudness compared against the noise floor is the
\* root-mean-square of the filled region audio_buffer[0 .. samples_accumulated-1]
\* alone: the pass is skipped exactly when that region is below the floor.
C4_RmsOverFilledRegion ==
    [][Attempt =>
        (last_pass'.outcome = "skipped"
            <=> RmsBelowFloor(audio_buffer', cb'.wstart + cb'.wlen))
    ]_vars

\* ------------------------------------------------------------------------
\* SpecDecide: the decision and notification logic.  Every accepted chunk
\* fills a whole window (loud or silent), the clock advances around the
\* rate limit, and the configuration file is rewritten while running.
DecideChunks == { Block(20, INFERENCE_THRESHOLD), Block(0, INFERENCE_THRESHOLD) }

Outs == { << 127, -128 >>, << 0, 0 >>, << -128, 127 >> }

Curls == {"ok", "perform_failed", "init_failed"}

DecideInputs == CallbackInputs(DecideChunks, Outs, Curls)

TickSteps == { EMAIL_RATE_LIMIT_SECONDS - 1, EMAIL_RATE_LIMIT_SECONDS,
               EMAIL_RATE_LIMIT_SECONDS + 1 }

EmailOff == << StrLine("email_enabled", "no") >>

DecideConfigs == { EmailOff, EmailOn \o << ThresholdLine(50) >> }

InitDecide == InitWith({ NoFile, File(StartTime - 1, EmailOn) })

NextDecide ==
    \/ \E l \in BOOLEAN, f \in BOOLEAN : main(l, f)
    \/ \E name \in TargetOnly : registry_event_global(name)
    \/ \E s \in TargetOnly, f \in BOOLEAN : on_param_changed(s, f)
    \/ Callback(TargetOnly, DecideInputs)
    \/ \E d \in TickSteps : Tick(d)
    \/ \E ls \in DecideConfigs : write_config(ls)

SpecDecide == InitDecide /\ [][NextDecide]_vars

\* ------------------------------------------------------------------------
\* Claims about the decision and notification logic (SpecDecide)

\* larodRunJob succeeded in the attempt p
Inferred(p) == p.seq > 0 /\ p.outcome \in {"above", "below"}

\* send_email_notification got as far as libcurl
SendAttempted(p) == p.stage \in {"sent", "send_failed", "curl_init_failed"}

\* C5: every consumption attempt ends with samples_accumulated = 0, whatever
\* its outcome, and the chunk accepted next is written from index 0.
C5_AttemptResetsFill ==
    [][/\ Attempt => samples_accumulated' = 0
       /\ (TargetCallback /\ cb.kind = "consumed" /\ Wrote(cb')) => cb'.wstart = 0
    ]_vars

\* after a first attempt that did not reach the inference (skipped or failed),
\* a second window was written from index 0 and its attempt sent a
\* notification; the fill count is 0 again
C5_Witness ==
    /\ pass_count = 2
    /\ cb.kind = "consumed"
    /\ cb.wstart = 0
    /\ samples_accumulated = 0
    /\ last_pass.stage = "sent"
    /\ inference_count = 1

C7_NotificationsSpaced ==
    \A i \in 1..Len(sent) : \A j \in 1..Len(sent) :
        i < j => sent[j].t - sent[i].t >= EMAIL_RATE_LIMIT_SECONDS

\* two notifications were sent, exactly 120 s apart
C7_Witness ==
    /\ Len(sent) = 2
    /\ sent[2].t - sent[1].t = EMAIL_RATE_LIMIT_SECONDS

C9_DetectionCountedAlways ==
    [][(Attempt /\ Inferred(last_pass')) =>
        /\ inference_count' = inference_count + 1
        /\ last_pass'.prob2 > last_pass'.threshold * 100
             => /\ detection_count' = detection_count + 1
                /\ last_pass'.ret
                /\ last_pass'.outcome = "above"
    ]_vars

\* a detection was counted while its notification was rate limited
C9_Witness ==
    /\ last_pass.seq > 0
    /\ last_pass.outcome = "above"
    /\ last_pass.stage = "rate_limited"
    /\ last_pass.ret
    /\ detection_count = 2

\* C10: a pass with prob2 <= threshold (equality included) changes nothing in
\* the decision state: nothing is sent, detection_count and last_email_time
\* keep their values, with or without a cooldown active.
C10_BelowThresholdNoChange ==
    [][(Attempt /\ Inferred(last_pass')
          /\ last_pass'.prob2 <= last_pass'.threshold * 100) =>
        /\ last_pass'.outcome = "below"
        /\ ~last_pass'.ret
        /\ last_pass'.stage = "none"
        /\ sent' = sent
        /\ detection_count' = detection_count
        /\ last_email_time' = last_email_time
    ]_vars

\* a pass with prob2 equal to the threshold was made during a cooldown
C10_Witness ==
    /\ last_pass.seq > 0
    /\ last_pass.outcome = "below"
    /\ last_pass.prob2 = last_pass.threshold * 100
    /\ last_pass.limited
    /\ sent # << >>

\* ------------------------------------------------------------------------
\* SpecConfig: the threshold under every configuration entry point.  Files
\* hold thresholds below, at and above the limits of the range, a line that
\* does not parse, and other parameters after a rejected threshold; the
\* parameter-changed signal carries numbers, text and text after digits.
\* The clock stands still: the file is reread by main and by the periodic
\* reload of the callback.
ConfigLines ==
    { << ThresholdLine(29) >>, << ThresholdLine(30) >>, << ThresholdLine(70) >>,
      << ThresholdLine(71), StrLine("email_enabled", "yes") >>,
      << BadThresholdLine, StrLine("email_enabled", "yes") >> }

ParamSignals ==
    { << "threshold", "29" >>, << "threshold", "71" >>, << "threshold", "abc" >>,
      << "threshold", "35abc" >>, << "root.Gunshot.threshold", "-45" >>,
      << "email_enabled", "yes" >> }

\* chunks that do not fit: the callback gets as far as the periodic reload
ConfigChunks == { Block(20, AUDIO_BUFFER_SIZE + 1) }

ConfigInputs == CallbackInputs(ConfigChunks, { << 0, 0 >> }, {"ok"})

InitConfig ==
    InitWith({NoFile} \cup { File(StartTime - 1, ls) : ls \in ConfigLines })

NextConfig ==
    \/ \E l \in BOOLEAN, f \in BOOLEAN : main(l, f)
    \/ \E name \in TargetOnly : registry_event_global(name)
    \/ \E s \in TargetOnly, f \in BOOLEAN : on_param_changed(s, f)
    \/ Callback(TargetOnly, ConfigInputs)
    \/ \E ls \in ConfigLines : write_config(ls)
    \/ \E p \in ParamSignals : on_parameter_changed(p[1], p[2])

SpecConfig == InitConfig /\ [][NextConfig]_vars

\* C11: the configured threshold is within 30..70 percent in every reachable
\* state, whatever the files load_config reads and whatever the values
\* on_parameter_changed is given.
C11_ThresholdInRange ==
    confidence_threshold >= THRESHOLD_MIN /\ confidence_threshold <= THRESHOLD_MAX

\* the signal offered 71 after load_config had taken the upper limit from a file
C11_Witness ==
    /\ last_param = [param_name |-> "threshold", param_value |-> "71"]
    /\ confidence_threshold = THRESHOLD_MAX
    /\ config_file.exists

\* The file holds threshold lines, and none of them is acceptable
OnlyBadThresholds(file) ==
    /\ file.exists
    /\ \E i \in DOMAIN file.lines : file.lines[i].key = "threshold"
    /\ \A i \in DOMAIN file.lines :
          file.lines[i].key = "threshold" =>
              \/ ~file.lines[i].parsed
              \/ file.lines[i].num < THRESHOLD_MIN
              \/ file.lines[i].num > THRESHOLD_MAX

\* email_enabled="yes" stands on the last line of the file
EnablesEmail(file) ==
    /\ file.lines # << >>
    /\ file.lines[Len(file.lines)] = StrLine("email_enabled", "yes")

\* load_config read the file in this step: in main, or in a callback
LoadStep ==
    \/ pc = "start" /\ pc' # "start"
    \/ debug_counter' # debug_counter /\ "file_read" \in cb'.io

\* on_parameter_changed was given a threshold outside 30..70 in this step
BadSignalStep ==
    /\ last_param' # last_param
    /\ NameHas(last_param'.param_name, "threshold")
    /\ \/ atoi(last_param'.param_value) < THRESHOLD_MIN
       \/ atoi(last_param'.param_value) > THRESHOLD_MAX

ValidationSignalled(w) == w \cap {"out_of_range", "parse_failed"} # {}

\* C12: a threshold outside 30..70 or unparseable, offered through load_config
\* or through on_parameter_changed, is rejected: the threshold keeps its
\* value, a warning is emitted, the program goes on and the parameters on
\* later lines are still processed.
C12_RejectedWithWarning ==
    [][/\ LoadStep /\ OnlyBadThresholds(config_file) =>
            /\ confidence_threshold' = confidence_threshold
            /\ ValidationSignalled(config_warnings')
            /\ EnablesEmail(config_file) => email_enabled'
       /\ BadSignalStep =>
            /\ confidence_threshold' = confidence_threshold
            /\ ValidationSignalled(config_warnings')
            /\ pc' = "running"]_vars

\* ------------------------------------------------------------------------
\* Claims about the passes (SpecDecide, continued)

\* C13: when larodRunJob returns false the pass is abandoned: nothing is
\* emitted, inference_count, detection_count and last_email_time keep their
\* values, process_gunshot_detection returns false, the fill count is reset;
\* after it the callback takes chunks as before and a chunk that completes a
\* window leads to a new pass.
C13_FailedInferenceAbandoned ==
    [][/\ Attempt /\ last_pass'.outcome = "inference_failed" =>
            /\ sent' = sent
            /\ inference_count' = inference_count
            /\ detection_count' = detection_count
            /\ last_email_time' = last_email_time
            /\ ~last_pass'.ret
            /\ samples_accumulated' = 0
            /\ pc' = "running" /\ ml_ready'
       /\ last_pass.outcome = "inference_failed" /\ TargetCallback =>
            /\ Wrote(cb') <=> (samples_accumulated + cb'.n <= AUDIO_BUFFER_SIZE)
            /\ Wrote(cb') /\ samples_accumulated + cb'.n >= INFERENCE_THRESHOLD
                  => Attempt]_vars

\* the pass after a failed one ran the inference and delivered a notification
C13_Witness ==
    /\ last_pass.seq = 2
    /\ last_pass.prev = "inference_failed"
    /\ last_pass.outcome = "above"
    /\ inference_count = 1
    /\ Len(sent) = 1

\* ------------------------------------------------------------------------
\* Claims about the one-time initialisation (SpecAcc)

\* C14: larodRunJob is never invoked while fft_initialized or
\* mel_filters_initialized is false: a pass that reaches the inference has
\* both set and computed its features, and as long as one of them is unset
\* the pipeline is not ready and no pass has been made.
C14_NoInferenceWithoutWorkspace ==
    [][/\ Attempt /\ last_pass'.larod_called =>
            /\ fft_initialized' /\ mel_filters_initialized'
            /\ last_pass'.features = "computed"
       /\ ~fft_initialized' \/ ~mel_filters_initialized' =>
            /\ ~ml_ready'
            /\ pass_count' = 0
            /\ pc' # "running"]_vars

\* the allocation of the FFT workspace failed in main, which returned 1
C14_Witness ==
    /\ pc = "exited"
    /\ fft_inits = 1
    /\ ~fft_initialized /\ ~mel_filters_initialized
    /\ mel_builds = 0
    /\ pass_count = 0

\* ------------------------------------------------------------------------
\* SpecQuant: quantize_input applied to feature arrays of EXPECTED_INPUT_SIZE
\* elements.  An array is made of two stretches of values; the values lie in
\* [0, 1]: the ends, the middle, and neighbours on either side of them.
MelValues ==
    { 0, 1, 3, 6, 382, 383, 764, 765, 766, 767, 768, 1147, 1148, 1149,
      1527, 1528, 1529, MEL_ONE }

Splits == { 1, N_MELS, EXPECTED_INPUT_SIZE - 1 }

QuantInputs ==
    { Join(Block(a, k), Block(b, EXPECTED_INPUT_SIZE - k)) :
        a \in MelValues, b \in MelValues, k \in Splits }

InitQuant ==
    /\ InitProgram({NoFile})
    /\ mel_features \in QuantInputs
    /\ quantized_output = << >>
    /\ spectrogram_samples = 0
    /\ spectrogram = NoCall
    /\ bank = NoBank

NextQuant == quantize_input

SpecQuant == InitQuant /\ [][NextQuant]_vars

Indexes == 0 .. EXPECTED_INPUT_SIZE - 1

\* one index in every stretch an array can have
Probes == { 0, N_MELS - 1, N_MELS, EXPECTED_INPUT_SIZE - 1 }

Quantized == quantized_output # << >>

Abs(x) == IF x < 0 THEN 0 - x ELSE x

\* C15: for every feature value v in [0, 1], dequantizing quantize(v) with
\* (q - zero_point) * scale gives a value within one scale of v.
C15_RoundTripWithinOneStep ==
    Quantized =>
        \A i \in Probes :
            Abs(dequantize(At(quantized_output, i)) - At(mel_features, i))
                <= MEL_ONE \div SCALE_INV

\* C16: quantize_input writes N_FRAMES * N_MELS elements, every one of them
\* in -128..127; an element depends on the input element at its index only
\* and does not decrease when that input grows.
C16_QuantizedInRangeMonotone ==
    Quantized =>
        /\ Total(quantized_output) = N_FRAMES * N_MELS
        /\ \A i \in Indexes :
              /\ At(quantized_output, i) >= INT8_MIN
              /\ At(quantized_output, i) <= INT8_MAX
        /\ \A i \in Probes, j \in Probes :
              /\ At(mel_features, i) <= At(mel_features, j)
                    => At(quantized_output, i) <= At(quantized_output, j)
              /\ At(mel_features, i) = At(mel_features, j)
                    => At(quantized_output, i) = At(quantized_output, j)

\* an array from 0.0 (clamped at the lower end) to 1.0 (the upper end)
C16_Witness ==
    /\ Quantized
    /\ At(mel_features, 0) = 0
    /\ At(quantized_output, 0) = INT8_MIN
    /\ At(mel_features, EXPECTED_INPUT_SIZE - 1) = MEL_ONE
    /\ At(quantized_output, EXPECTED_INPUT_SIZE - 1) = INT8_MAX

\* ------------------------------------------------------------------------
\* C17: once init_mel_filter_bank (init_fft_workspace) has succeeded, no
\* step computes the filter bank (allocates the workspace, makes the plan,
\* fills the window) again and the flag stays set; the calls made by every
\* extraction pass return true, so the pass computes its features.
C17_InitOnce ==
    [][/\ mel_filters_initialized =>
            mel_builds' = mel_builds /\ mel_filters_initialized'
       /\ fft_initialized =>
            fft_inits' = fft_inits /\ fft_initialized'
       /\ mel_builds' <= 1
       /\ Attempt /\ last_pass'.larod_called =>
            last_pass'.features = "computed"]_vars

\* two extraction passes were made on the workspace that main initialised
C17_Witness ==
    /\ last_pass.seq = 2
    /\ last_pass.features = "computed"
    /\ last_pass.prev \in {"above", "below", "inference_failed"}
    /\ mel_builds = 1
    /\ fft_inits = 1

\* ------------------------------------------------------------------------
\* SpecEvent: loud windows on which the engine returns the scores
\* (0.1, 0.9) or (0.9, 0.1), i.e. the int8 outputs -102 and 102, with email
\* left at its defaults or enabled and configured, and the send succeeding
\* or failing.
EventChunks == { Block(20, INFERENCE_THRESHOLD) }

EventOuts == { << -102, 102 >>, << 102, -102 >> }

EventInputs == CallbackInputs(EventChunks, EventOuts, {"ok", "perform_failed"})

InitEvent == InitWith({ NoFile, File(StartTime - 1, EmailOn) })

NextEvent ==
    \/ \E l \in BOOLEAN, f \in BOOLEAN : main(l, f)
    \/ \E name \in TargetOnly : registry_event_global(name)
    \/ \E s \in TargetOnly, f \in BOOLEAN : on_param_changed(s, f)
    \/ Callback(TargetOnly, EventInputs)
    \/ Tick(EMAIL_RATE_LIMIT_SECONDS)
    \/ \E ls \in DecideConfigs : write_config(ls)

SpecEvent == InitEvent /\ [][NextEvent]_vars

\* the samples accumulated for the pass of this step
Window == Take(audio_buffer', cb'.wstart + cb'.wlen)

\* C18: a pass on a window above the noise floor with prob_positive above
\* the threshold and no cooldown active emits exactly one Detection Event;
\* the event carries prob_positive * 100 (about 90 for the scores (0.1, 0.9))
\* and the loudness of that window; no pass emits more than one event.
C18_OneEventWithConfidence ==
    [][/\ Attempt /\ last_pass'.outcome = "above" /\ ~last_pass'.limited =>
            /\ Len(sent') = Len(sent) + 1
            /\ sent'[Len(sent')].confidence = Confidence(last_pass'.prob2)
            /\ last_pass'.prob2 = Prob2(<< -102, 102 >>) =>
                  /\ sent'[Len(sent')].confidence >= 895
                  /\ sent'[Len(sent')].confidence <= 905
            /\ sent'[Len(sent')].num_samples = Total(Window)
            /\ sent'[Len(sent')].sumsq = SumSq(Window)
       /\ Len(sent') <= Len(sent) + 1]_vars

\* ------------------------------------------------------------------------
\* SpecReload: the file is rewritten with a new valid threshold while loud
\* chunks keep arriving; the clock advances by 5 or 6 seconds at a time.
\* st_mtime counts whole seconds: writes within one second leave the same
\* modification time.
ReloadConfigs == { << ThresholdLine(THRESHOLD_MIN) >>, << ThresholdLine(THRESHOLD_MAX) >> }

ReloadTicks == { CONFIG_CHECK_SECONDS, CONFIG_CHECK_SECONDS + 1 }

ReloadInputs == CallbackInputs({ Block(20, INFERENCE_THRESHOLD) }, { << 0, 0 >> }, {"ok"})

InitReload == InitWith({ File(StartTime - 1, << ThresholdLine(DEFAULT_THRESHOLD) >>) })

NextReload ==
    \/ \E l \in BOOLEAN, f \in BOOLEAN : main(l, f)
    \/ \E name \in TargetOnly : registry_event_global(name)
    \/ \E s \in TargetOnly, f \in BOOLEAN : on_param_changed(s, f)
    \/ Callback(TargetOnly, ReloadInputs)
    \/ \E d \in ReloadTicks : TickWithin(d, MaxConfigElapsed)
    \/ \E ls \in ReloadConfigs : write_config(ls)

SpecReload == InitReload /\ [][NextReload]_vars

\* the threshold a load of the file gives
FileThreshold(file) == load_config(Cfg, file).confidence_threshold

\* C19: once the file holds a new valid threshold, every inference pass that
\* starts more than 5 seconds after the modification compares prob_positive
\* against that value (chunks keep arriving: the pass is itself a callback).
C19_ChangeEffectiveWithin5s ==
    /\ last_pass.seq > 0
    /\ last_pass.outcome \in {"above", "below"}
    /\ config_file.exists
    /\ last_pass.t - config_file.mtime > CONFIG_CHECK_SECONDS
    => last_pass.threshold = FileThreshold(config_file)

\* ------------------------------------------------------------------------
\* C20 (SpecDecide): between dequeuing and requeuing a buffer, on_process
\* performs no blocking I/O: no file read and no network transfer.
C20_NoBlockingIoInCallback ==
    cb.io \cap {"file_read", "network"} = {}

\* ------------------------------------------------------------------------
\* SpecMel: the frame loop of compute_mel_spectrogram on buffers of many
\* lengths: none, shorter than a window, a window, whole numbers of hops and
\* their neighbours, around the lengths at which the frame cap is reached,
\* the inference threshold and the capacity.
MaxSlack == 2

FrameProbes == (0 .. 8) \cup (N_FRAMES - 4 .. N_FRAMES + 4)

MelSampleCounts ==
    { n \in { k * HOP_LENGTH + d : k \in FrameProbes, d \in -MaxSlack .. MaxSlack } :
        n >= 0 }
    \cup { INFERENCE_THRESHOLD, AUDIO_BUFFER_SIZE }

InitMel ==
    /\ InitProgram({NoFile})
    /\ mel_features = << >>
    /\ quantized_output = << >>
    /\ spectrogram_samples \in MelSampleCounts
    /\ spectrogram = NoCall
    /\ bank = NoBank

NextMel == compute_frames

SpecMel == InitMel /\ [][NextMel]_vars

Min(a, b) == IF a < b THEN a ELSE b

CeilDiv(a, b) == (a + b - 1) \div b

\* C21: compute_mel_spectrogram makes one frame for each start offset 0,
\* HOP_LENGTH, 2*HOP_LENGTH, ... below num_samples, capped at N_FRAMES: the
\* frame count is min(N_FRAMES, ceil(num_samples / HOP_LENGTH)), a buffer of
\* exactly N_FFT samples yields at least one frame, and the rows of frames
\* not made stay zero (nothing is written at or after frame_count * N_MELS).
C21_OneFramePerOffsetInBuffer ==
    spectrogram # NoCall =>
        /\ spectrogram.frame_count =
               Min(N_FRAMES, CeilDiv(spectrogram_samples, HOP_LENGTH))
        /\ spectrogram_samples = N_FFT => spectrogram.frame_count >= 1
        /\ spectrogram.max_write < spectrogram.frame_count * N_MELS

\* ------------------------------------------------------------------------
\* C27: in every consumption attempt of on_process in which features are
\* extracted, exactly N_FRAMES frames are made, the highest buffer index read
\* is below (N_FRAMES - 1) * HOP_LENGTH + N_FFT, which is below
\* INFERENCE_THRESHOLD and so below the fill count of the window and the
\* capacity, no frame is zero-padded, and every write to the feature matrix
\* is at an index below N_FRAMES * N_MELS.
C27_PassReadsCurrentWindowOnly ==
    /\ (N_FRAMES - 1) * HOP_LENGTH + N_FFT < INFERENCE_THRESHOLD
    /\ last_pass.seq > 0 /\ last_pass.features # "none" =>
          /\ last_pass.frames.frame_count = N_FRAMES
          /\ last_pass.frames.max_read >= 0
          /\ last_pass.frames.max_read < (N_FRAMES - 1) * HOP_LENGTH + N_FFT
          /\ last_pass.frames.max_read < AUDIO_BUFFER_SIZE
          /\ ~last_pass.frames.padded
          /\ last_pass.frames.max_write < N_FRAMES * N_MELS
    /\ cb.kind = "consumed" /\ last_pass.features # "none" =>
          last_pass.frames.max_read < cb.wstart + cb.wlen

\* a pass extracted features from a window filled by two chunks
C27_Witness ==
    /\ cb.kind = "consumed"
    /\ cb.wstart > 0
    /\ last_pass.features = "computed"
    /\ last_pass.frames.frame_count = N_FRAMES
    /\ last_pass.frames.max_read = (N_FRAMES - 1) * HOP_LENGTH + N_FFT - 1

\* ------------------------------------------------------------------------
\* C23: a consumption attempt is made exactly when an accepted append brings
\* the fill count to INFERENCE_THRESHOLD or more: no attempt is made on fewer
\* samples, and an accepted append that reaches the threshold makes exactly
\* one attempt, in the same callback.
C23_AttemptIffThresholdReached ==
    [][/\ pass_count' \in {pass_count, pass_count + 1}
       /\ Attempt => /\ TargetCallback
                     /\ cb'.kind = "consumed"
                     /\ cb'.wstart = samples_accumulated
                     /\ cb'.wstart + cb'.wlen >= INFERENCE_THRESHOLD
                     /\ last_pass'.seq = pass_count'
       /\ (/\ TargetCallback
           /\ Wrote(cb')
           /\ samples_accumulated + cb'.n >= INFERENCE_THRESHOLD) => Attempt
       /\ (/\ TargetCallback
           /\ Wrote(cb')
           /\ samples_accumulated + cb'.n < INFERENCE_THRESHOLD) =>
               /\ ~Attempt
               /\ cb'.kind = "appended"
               /\ samples_accumulated' = samples_accumulated + cb'.n
    ]_vars

\* the second of two chunks brought the fill count to exactly the threshold
\* and the attempt was made in that callback
C23_Witness ==
    /\ cb.kind = "consumed"
    /\ cb.wstart > 0
    /\ cb.wstart + cb.wlen = INFERENCE_THRESHOLD
    /\ last_pass.seq = pass_count

\* ------------------------------------------------------------------------
\* SpecFill: the accumulator under chunks around the headroom above the
\* inference threshold: none, one short of the threshold (loud and silent),
\* the largest chunk that fits on top of a fill of one short of the
\* threshold, one more, and more than the capacity.
Headroom == AUDIO_BUFFER_SIZE - INFERENCE_THRESHOLD + 1

FillChunks ==
    { Block(0, 0), Block(20, INFERENCE_THRESHOLD - 1),
      Block(0, INFERENCE_THRESHOLD - 1),
      Block(20, Headroom), Block(20, Headroom + 1),
      Block(20, AUDIO_BUFFER_SIZE + 1) }

FillInputs == NoDataInputs \cup CallbackInputs(FillChunks, { << 0, 0 >> }, {"ok"})

InitFill == InitWith({NoFile})

NextFill ==
    \/ \E l \in BOOLEAN, f \in BOOLEAN : main(l, f)
    \/ \E name \in NodeNames : registry_event_global(name)
    \/ \E s \in NodeNames, f \in BOOLEAN : on_param_changed(s, f)
    \/ Callback(NodeNames, FillInputs)

SpecFill == InitFill /\ [][NextFill]_vars

\* C24: between callbacks the fill count is below INFERENCE_THRESHOLD, so a
\* chunk of at most AUDIO_BUFFER_SIZE - INFERENCE_THRESHOLD + 1 samples that
\* reaches the accumulator is never dropped, whatever came before.
C24_FillBelowThresholdBetweenCallbacks ==
    /\ [](samples_accumulated >= 0 /\ samples_accumulated < INFERENCE_THRESHOLD)
    /\ [][(TargetCallback /\ cb'.n <= Headroom) => Wrote(cb')]_vars

\* a chunk of the largest such length was accepted on top of the largest fill
\* there can be between callbacks, and filled the buffer to its capacity
C24_Witness ==
    /\ cb.kind = "consumed"
    /\ cb.wstart = INFERENCE_THRESHOLD - 1
    /\ cb.wlen = Headroom
    /\ cb.wstart + cb.wlen = AUDIO_BUFFER_SIZE
    /\ samples_accumulated = 0

\* ------------------------------------------------------------------------
\* C26: last_email_time changes only in a pass whose send succeeded (and is
\* then the time of that pass); a pass above the threshold whose send failed
\* or was not attempted (email disabled or not configured, rate limited)
\* leaves it unchanged, and starts no cooldown of its own: when no cooldown
\* was active in that pass, the next pass above the threshold with email
\* configured attempts a send, however soon it comes.
C26_CooldownStartsOnSuccessOnly ==
    [][/\ last_email_time' # last_email_time =>
             /\ Attempt
             /\ last_pass'.stage = "sent"
             /\ last_email_time' = now
       /\ (Attempt /\ last_pass'.outcome = "above" /\ last_pass'.stage # "sent")
          => last_email_time' = last_email_time
       /\ (/\ Attempt
           /\ last_pass.seq > 0
           /\ last_pass.outcome = "above"
           /\ last_pass.stage # "sent"
           /\ ~last_pass.limited
           /\ last_pass'.outcome = "above"
           /\ last_pass'.configured)
          => /\ ~last_pass'.limited
             /\ SendAttempted(last_pass')
    ]_vars

\* two passes above the threshold within the same second: the send of the
\* first failed or was not attempted, the second was sent
C26_Witness ==
    /\ pass_count = 2
    /\ detection_count = 2
    /\ last_pass.t = StartTime
    /\ last_pass.stage = "sent"
    /\ Len(sent) = 1
    /\ sent[1].t = StartTime
    /\ last_email_time = StartTime

\* ------------------------------------------------------------------------
\* C28: quantize_input maps every feature value of at most 0.5 to -128, so
\* that only values above 0.5 get a larger code, and maps 1.0 to 127.
C28_LowerHalfCollapses ==
    Quantized =>
        \A i \in Probes :
            /\ 2 * At(mel_features, i) <= MEL_ONE
                  => At(quantized_output, i) = INT8_MIN
            /\ At(quantized_output, i) > INT8_MIN
                  => 2 * At(mel_features, i) > MEL_ONE
            /\ At(mel_features, i) = MEL_ONE
                  => At(quantized_output, i) = INT8_MAX

\* an array holding a value between 0 and 0.25, mapped to -128, and a value
\* above 0.5 that gets the next code
C28_Witness ==
    /\ Quantized
    /\ 4 * At(mel_features, 0) < MEL_ONE
    /\ At(mel_features, 0) > 0
    /\ At(quantized_output, 0) = INT8_MIN
    /\ 2 * At(mel_features, EXPECTED_INPUT_SIZE - 1) > MEL_ONE
    /\ At(quantized_output, EXPECTED_INPUT_SIZE - 1) = INT8_MIN + 1

\* ------------------------------------------------------------------------
\* SpecGate: callbacks on every stream and on every path of on_process: no
\* buffer, no data, a stream that is not the target, a chunk that does not
\* fit, an append, and passes that are skipped as silent, fail in the
\* inference or detect; the configuration file is rewritten meanwhile.
GateChunks ==
    { Block(20, 44000), Block(0, INFERENCE_THRESHOLD),
      Block(20, AUDIO_BUFFER_SIZE + 1) }

GateInputs == NoDataInputs \cup CallbackInputs(GateChunks, { << -128, 127 >> }, {"ok"})

GateConfigs == { << ThresholdLine(THRESHOLD_MIN) >>, << ThresholdLine(THRESHOLD_MAX) >> }

InitGate == InitWith({ File(StartTime - 1, << ThresholdLine(THRESHOLD_MIN) >>) })

NextGate ==
    \/ \E l \in BOOLEAN, f \in BOOLEAN : main(l, f)
    \/ \E name \in NodeNames : registry_event_global(name)
    \/ \E s \in NodeNames, f \in BOOLEAN : on_param_changed(s, f)
    \/ Callback(NodeNames, GateInputs)
    \/ \E ls \in GateConfigs : write_config(ls)

SpecGate == InitGate /\ [][NextGate]_vars

\* C29: only a stream whose node name contains
\* "AudioDevice0Input0.Unprocessed" is ever flagged as target, and a callback
\* on a stream that is not flagged, or one made while ml_ready is false,
\* leaves audio_buffer, samples_accumulated, inference_count, detection_count
\* and the threshold unchanged (and makes no consumption attempt).
C29_OnlyTargetStreamContributes ==
    /\ [](\A s \in DOMAIN streams : streams[s] => IsTargetName(s))
    /\ [][(cb' # cb /\ ~(streams[cb'.stream] /\ ml_ready)) =>
            /\ UNCHANGED << audio_buffer, samples_accumulated, inference_count,
                            detection_count, confidence_threshold >>
            /\ ~Attempt
       ]_vars

\* a callback with a loud chunk on the stream of AudioDevice0Input0, which is
\* not the target, while the target stream holds samples and the file holds
\* a threshold that is not the one in force
C29_Witness ==
    /\ cb.kind = "ignored"
    /\ cb.n > 0
    /\ cb.stream \in DOMAIN streams
    /\ ~streams[cb.stream]
    /\ ~IsTargetName(cb.stream)
    /\ ml_ready
    /\ samples_accumulated > 0
    /\ config_file.lines = << ThresholdLine(THRESHOLD_MAX) >>
    /\ confidence_threshold = THRESHOLD_MIN

\* ------------------------------------------------------------------------
\* C30: a callback that dequeued a buffer queues it back exactly once, on
\* every path (no data, stream ignored, chunk dropped, chunk appended, pass
\* skipped, inference failed, detection); a callback that got no buffer
\* queues nothing.
C30_BufferQueuedBackOnce ==
    cb # NoCallback =>
        /\ cb.kind \in {"no_buffer", "no_data", "ignored", "dropped",
                        "appended", "consumed"}
        /\ cb.kind = "no_buffer" => cb.requeued = 0
        /\ cb.kind # "no_buffer" => cb.requeued = 1

\* a callback without data came after a pass that detected
C30_Witness ==
    /\ cb.kind = "no_data"
    /\ cb.requeued = 1
    /\ pass_count > 0
    /\ last_pass.outcome = "above"

\* ------------------------------------------------------------------------
\* SpecLive: the target stream keeps delivering non-empty chunks of at most
\* AUDIO_BUFFER_SIZE - INFERENCE_THRESHOLD + 1 samples (loud or silent, the
\* inference failing or not); callbacks without a buffer, without data, with
\* an empty chunk and with a chunk larger than the buffer come in between,
\* as often as they like.
SteadyChunks == { Block(20, 44000), Block(0, 44000), Block(20, Headroom) }

OtherChunks == { Block(0, 0), Block(20, AUDIO_BUFFER_SIZE + 1) }

SteadyInputs == CallbackInputs(SteadyChunks, { << 0, 0 >> }, {"ok"})

LiveInputs ==
    NoDataInputs \cup SteadyInputs
                 \cup CallbackInputs(OtherChunks, { << 0, 0 >> }, {"ok"})

\* PipeWire runs on_process for every buffer the target stream delivers
SteadyDelivery == Callback(TargetOnly, SteadyInputs)

InitLive == InitWith({NoFile})

NextLive ==
    \/ \E l \in BOOLEAN, f \in BOOLEAN : main(l, f)
    \/ \E name \in TargetOnly : registry_event_global(name)
    \/ \E s \in TargetOnly, f \in BOOLEAN : on_param_changed(s, f)
    \/ Callback(TargetOnly, LiveInputs)

SpecLive == InitLive /\ [][NextLive]_vars /\ WF_vars(SteadyDelivery)

TargetFlagged ==
    \E s \in DOMAIN streams : IsTargetName(s) /\ streams[s] /\ ml_ready

\* C25: while the target stream keeps delivering non-empty chunks of at most
\* AUDIO_BUFFER_SIZE - INFERENCE_THRESHOLD + 1 samples, consumption attempts
\* keep being made: from every state with the stream flagged, whatever the
\* fill count, every further attempt the model follows (up to MaxPasses) is
\* eventually made, whatever dropped or empty chunks, skipped passes and
\* failed inferences come in between.
C25_AttemptsKeepComing ==
    (TargetFlagged /\ pass_count < MaxPasses) ~> (pass_count = MaxPasses)

\* a second attempt was made, on a window begun after a failed inference
C25_Witness ==
    /\ TargetFlagged
    /\ pass_count = MaxPasses
    /\ cb.kind = "consumed"
    /\ cb.wstart > 0
    /\ last_pass.prev = "inference_failed"

\* ------------------------------------------------------------------------
\* SpecBank: init_mel_filter_bank for the fixed parameters, band by band,
\* for either value the top break frequency can round to.
InitBank == InitWith({NoFile})

NextBank ==
    \/ \E top \in HzTops : mel_bin_points(top)
    \/ mel_fill_row
    \/ mel_normalize_row

SpecBank == InitBank /\ [][NextBank]_vars

Bands == 0 .. N_MELS - 1

Support(row) == { k \in Bins : row[k][1] # 0 }

\* the sum of the row is 1
SumsToOne(row) == LET a == area(row) IN a[1] = a[2]

\* C22: the break bins are non-decreasing and within 0 .. N_FFT_BINS - 1;
\* every weight is non-negative; the non-zero entries of a row, before and
\* after its normalisation, are the bins of one contiguous range within
\* [left, right) of its band; and a normalised row with a non-empty support
\* sums to 1 (in exact arithmetic: the float results differ from these by
\* rounding only).
C22_FilterBankWellFormed ==
    bank # NoBank =>
        /\ \A i \in 0 .. N_MELS + 1 :
              bank.bin_points[i] >= 0 /\ bank.bin_points[i] <= N_FFT_BINS - 1
        /\ \A i \in 0 .. N_MELS : bank.bin_points[i] <= bank.bin_points[i + 1]
        /\ \A m \in Bands :
              LET row == bank.mel_filter_bank[m]
                  sup == Support(row)
              IN  /\ \A k \in Bins : row[k][1] >= 0 /\ row[k][2] > 0
                  /\ \A k \in sup : /\ k >= bank.bin_points[m]
                                    /\ k < bank.bin_points[m + 2]
                  /\ Cardinality({ k \in sup : k - 1 \notin sup }) <= 1
                  /\ (m < bank.m /\ sup # {}) => SumsToOne(row)

\* the whole bank is built, the top break bin came out at N_FFT_BINS - 2, no
\* band is empty, and the last band covers the bins up to it
C22_Witness ==
    /\ bank # NoBank
    /\ bank.stage = "done"
    /\ bank.bin_points[N_MELS + 1] = N_FFT_BINS - 2
    /\ \A m \in Bands : Support(bank.mel_filter_bank[m]) # {}
    /\ bank.mel_filter_bank[N_MELS - 1][N_FFT_BINS - 3][1] > 0
    /\ SumsToOne(bank.mel_filter_bank[N_MELS - 1])

====
